---- MODULE Spec2Model ----
(***************************************************************************)
(* Model of the marker service of src/server.js: the Marker schema         *)
(* (validation, trim setter, createdAt default, unique position index),    *)
(* the POST /markers handler and the GET /markers handler, run by          *)
(* concurrently dispatched requests against one document collection.       *)
(*                                                                         *)
(* Numbers: latitude and longitude are whole degrees (the schema only      *)
(* compares them with -90, 90, -180, 180).                                 *)
(* Strings: a string is a sequence of runs [ch, n] (n copies of ch), no    *)
(* two adjacent runs with the same ch, so that strings of 200 characters   *)
(* are values TLC can hold.  ch is "sp" (a whitespace character) or "a"    *)
(* (any other character).                                                  *)
(* An optional JSON field is a sequence: << >> when absent, <<v>> when     *)
(* present.                                                                *)
(***************************************************************************)
EXTENDS Integers, Sequences, FiniteSets, TLC

\* ---------------------------------------------------------------- bounds
NumReqs == 2      \* concurrently dispatched POST /markers requests
MaxTime == 1      \* the clock runs 0 .. MaxTime
MaxId   == 3      \* documents constructed in one behaviour (one per POST)

\* ------------------------------------------------------ schema constants
LatMin == -90
LatMax == 90
LngMin == -180
LngMax == 180
ContentMinLength == 1
ContentMaxLength == 200

\* The messages of the schema and of the handlers (src/server.js gives them
\* in Chinese; the names say which one each is).
MsgLatRequired == "position.lat: required"
MsgLatMin      == "position.lat: min"
MsgLatMax      == "position.lat: max"
MsgLngRequired == "position.lng: required"
MsgLngMin      == "position.lng: min"
MsgLngMax      == "position.lng: max"
MsgContentRequired  == "content: required"
MsgContentMinLength == "content: minlength"
MsgContentMaxLength == "content: maxlength"
MsgGetFailed   == "get failed"

\* ---------------------------------------------------------------- values
None == << >>
Some(v) == << v >>
IsSome(o) == Len(o) = 1
Val(o) == o[1]

Run(c, k) == [ch |-> c, n |-> k]

\* The string of l whitespace characters, c other characters and r
\* whitespace characters.
MkString(l, c, r) ==
  IF c = 0
  THEN (IF l + r = 0 THEN << >> ELSE << Run("sp", l + r) >>)
  ELSE (IF l = 0 THEN << >> ELSE << Run("sp", l) >>)
       \o << Run("a", c) >>
       \o (IF r = 0 THEN << >> ELSE << Run("sp", r) >>)

RECURSIVE StrLen(_)
StrLen(s) == IF s = << >> THEN 0 ELSE Head(s).n + StrLen(Tail(s))

RECURSIVE TrimLeft(_)
TrimLeft(s) ==
  IF s = << >> THEN s
  ELSE IF Head(s).ch = "sp" THEN TrimLeft(Tail(s)) ELSE s

RECURSIVE TrimRight(_)
TrimRight(s) ==
  IF s = << >> THEN s
  ELSE IF s[Len(s)].ch = "sp" THEN TrimRight(SubSeq(s, 1, Len(s) - 1)) ELSE s

\* Mutant of Trim: only the leading whitespace is removed.
Trim_LeftOnly(s) == TrimLeft(s)

\* String.prototype.trim, the setter of `trim: true`.
Trim(s) == TrimRight(TrimLeft(s))

\* ------------------------------------------------------------ the schema
\* A validator: its kind, its argument and its message.
Validator(k, a, m) == [kind |-> k, arg |-> a, msg |-> m]

\* Mutant of LatValidators: the min validator is missing.
LatValidators_NoMin ==
  << Validator("required", 0, MsgLatRequired),
     Validator("max", LatMax, MsgLatMax) >>

\* position.lat: required, min, max (mongoose puts `required` first).
LatValidators ==
  << Validator("required", 0, MsgLatRequired),
     Validator("min", LatMin, MsgLatMin),
     Validator("max", LatMax, MsgLatMax) >>

\* Mutant of LngValidators: the max validator is missing.
LngValidators_NoMax ==
  << Validator("required", 0, MsgLngRequired),
     Validator("min", LngMin, MsgLngMin) >>

\* position.lng: required, min, max.
LngValidators ==
  << Validator("required", 0, MsgLngRequired),
     Validator("min", LngMin, MsgLngMin),
     Validator("max", LngMax, MsgLngMax) >>

\* content: required, minlength, maxlength.
ContentValidators ==
  << Validator("requiredString", 0, MsgContentRequired),
     Validator("minlength", ContentMinLength, MsgContentMinLength),
     Validator("maxlength", ContentMaxLength, MsgContentMaxLength) >>

\* One validator on one optional value.  `required` wants a number, or a
\* string that is not empty; every other validator passes an absent value.
ValidatorOk(v, o) ==
  CASE v.kind = "required"  -> IsSome(o)
    [] v.kind = "requiredString" -> IsSome(o) /\ StrLen(Val(o)) > 0
    [] v.kind = "min"       -> ~IsSome(o) \/ Val(o) >= v.arg
    [] v.kind = "max"       -> ~IsSome(o) \/ Val(o) <= v.arg
    [] v.kind = "minlength" -> ~IsSome(o) \/ StrLen(Val(o)) >= v.arg
    [] v.kind = "maxlength" -> ~IsSome(o) \/ StrLen(Val(o)) <= v.arg

\* The validators of a path run in order and the first failure is the
\* path's error: the set holds that message, or nothing.
RECURSIVE PathErrors(_, _)
PathErrors(vs, o) ==
  IF vs = << >> THEN {}
  ELSE IF ~ValidatorOk(Head(vs), o) THEN {Head(vs).msg}
  ELSE PathErrors(Tail(vs), o)

\* ------------------------------------------------------------- the state
Reqs == 1 .. NumReqs

VARIABLES
  store,    \* the markers collection: a set of marker documents
  now,      \* Date.now()
  nextId,   \* the next generated _id
  req,      \* req[i]: the POST /markers request of slot i
  get       \* the GET /markers request

vars == << store, now, nextId, req, get >>

NoMessage == {}
NoDoc == [id |-> 0, lat |-> None, lng |-> None, content |-> None, createdAt |-> 0]
NoErr == [name |-> "none", message |-> NoMessage]
NoRes == [status |-> 0, kind |-> "none", message |-> NoMessage, data |-> None]
NoBody == [lat |-> None, lng |-> None, content |-> None]
IdleReq == [pc |-> "idle", body |-> NoBody, t0 |-> 0, doc |-> NoDoc,
            err |-> NoErr, res |-> NoRes]
NoGetRes == [status |-> 0, kind |-> "none", message |-> NoMessage, data |-> << >>]
IdleGet == [pc |-> "idle", err |-> NoErr, res |-> NoGetRes]

\* Mutant of NewMarker: `trim: true` is missing from the schema.
NewMarker_NoTrim(body, id, t) ==
  [id |-> id, lat |-> body.lat, lng |-> body.lng,
   content |-> body.content, createdAt |-> t]

\* new Marker({position: {lat, lng}, content}): a generated _id, the trim
\* setter on a content string, createdAt defaulting to Date.now().
NewMarker(body, id, t) ==
  [id |-> id,
   lat |-> body.lat,
   lng |-> body.lng,
   content |-> IF IsSome(body.content) THEN Some(Trim(Val(body.content))) ELSE None,
   createdAt |-> t]

\* Mutant of Validate: validation stops at the first failing path.
Validate_FirstPathOnly(doc) ==
  IF PathErrors(LatValidators, doc.lat) # {} THEN PathErrors(LatValidators, doc.lat)
  ELSE IF PathErrors(LngValidators, doc.lng) # {} THEN PathErrors(LngValidators, doc.lng)
  ELSE PathErrors(ContentValidators, doc.content)

\* Document validation: every path is validated and the errors of all
\* failing paths are reported together.
Validate(doc) ==
  PathErrors(LatValidators, doc.lat)
    \cup PathErrors(LngValidators, doc.lng)
    \cup PathErrors(ContentValidators, doc.content)

ValidationError(errs) == [name |-> "ValidationError", message |-> errs]
DuplicateKeyError == [name |-> "MongoServerError", message |-> {"E11000 duplicate key"}]
NetworkError == [name |-> "MongoNetworkError", message |-> {"connection lost"}]

\* The document as it is stored and serialised.
Stored(doc) ==
  [id |-> doc.id,
   position |-> [lat |-> Val(doc.lat), lng |-> Val(doc.lng)],
   content |-> Val(doc.content),
   createdAt |-> doc.createdAt]

\* Mutant of IndexHas: the index is not unique, no key is ever refused.
IndexHas_NotUnique(coll, doc) == FALSE

\* The unique index on (position.lat, position.lng): whether the
\* collection holds the key of doc.
IndexHas(coll, doc) ==
  \E m \in coll : m.position.lat = Val(doc.lat) /\ m.position.lng = Val(doc.lng)

\* Mutant of FindSorted: sort('createdAt'), ascending.
FindSorted_Ascending(coll) ==
  { s \in [1 .. Cardinality(coll) -> coll] :
      /\ \A i, j \in DOMAIN s : i # j => s[i] # s[j]
      /\ \A i, j \in DOMAIN s : i < j => s[i].createdAt <= s[j].createdAt }

\* Marker.find().sort('-createdAt'): every document once, createdAt
\* descending; the order of documents with equal createdAt is the store's.
FindSorted(coll) ==
  { s \in [1 .. Cardinality(coll) -> coll] :
      /\ \A i, j \in DOMAIN s : i # j => s[i] # s[j]
      /\ \A i, j \in DOMAIN s : i < j => s[i].createdAt >= s[j].createdAt }

\* res.status(201).json({status: 'success', data: newMarker})
Created(m) == [status |-> 201, kind |-> "success", message |-> NoMessage, data |-> Some(m)]

\* catch (err) of POST: res.status(400).json({status: 'fail', message: err.message})
PostFailed(err) == [status |-> 400, kind |-> "fail", message |-> err.message, data |-> None]

\* res.json({status: 'success', data: markers})
Listed(ms) == [status |-> 200, kind |-> "success", message |-> NoMessage, data |-> ms]

\* catch (err) of GET: res.status(500).json({status: 'error', message: ...})
GetFailed == [status |-> 500, kind |-> "error", message |-> {MsgGetFailed}, data |-> << >>]

Init ==
  /\ store = {}
  /\ now = 0
  /\ nextId = 1
  /\ req = [i \in Reqs |-> IdleReq]
  /\ get = IdleGet

\* ------------------------------------------------------------ POST /markers
\* The handler up to the insert: the body is destructured, the document is
\* constructed and validated; a validation error is caught and answered.
PostStart(i, body) ==
  /\ req[i].pc = "idle"
  /\ nextId <= MaxId
  /\ LET doc  == NewMarker(body, nextId, now)
         errs == Validate(doc)
         r    == [req[i] EXCEPT !.body = body, !.t0 = now, !.doc = doc]
     IN  req' = [req EXCEPT ![i] =
                   IF errs # {}
                   THEN [r EXCEPT !.pc = "done",
                                  !.err = ValidationError(errs),
                                  !.res = PostFailed(ValidationError(errs))]
                   ELSE [r EXCEPT !.pc = "inserting"]]
  /\ nextId' = nextId + 1
  /\ UNCHANGED << store, now, get >>

\* Mutant of PostInsert: the key is looked up when the document is
\* validated and the insert itself no longer checks it.
PostInsert_NoIndexCheck(i) ==
  /\ req[i].pc = "inserting"
  /\ store' = store \cup {Stored(req[i].doc)}
  /\ req' = [req EXCEPT ![i].pc = "done", ![i].res = Created(Stored(req[i].doc))]
  /\ UNCHANGED << now, nextId, get >>

\* The insert reaches the collection and the key is free.
PostInsert(i) ==
  /\ req[i].pc = "inserting"
  /\ ~IndexHas(store, req[i].doc)
  /\ store' = store \cup {Stored(req[i].doc)}
  /\ req' = [req EXCEPT ![i].pc = "done", ![i].res = Created(Stored(req[i].doc))]
  /\ UNCHANGED << now, nextId, get >>

\* The insert reaches the collection and the unique index rejects it.
PostDuplicate(i) ==
  /\ req[i].pc = "inserting"
  /\ IndexHas(store, req[i].doc)
  /\ req' = [req EXCEPT ![i].pc = "done",
                        ![i].err = DuplicateKeyError,
                        ![i].res = PostFailed(DuplicateKeyError)]
  /\ UNCHANGED << store, now, nextId, get >>

\* Mutant of PostStoreFails: the document is written and the failure is
\* reported all the same.
PostStoreFails_PartialWrite(i) ==
  /\ req[i].pc = "inserting"
  /\ store' = store \cup {Stored(req[i].doc)}
  /\ req' = [req EXCEPT ![i].pc = "done",
                        ![i].err = NetworkError,
                        ![i].res = PostFailed(NetworkError)]
  /\ UNCHANGED << now, nextId, get >>

\* The insert fails in the driver or the connection, before the collection
\* has taken the document.
PostStoreFails(i) ==
  /\ req[i].pc = "inserting"
  /\ req' = [req EXCEPT ![i].pc = "done",
                        ![i].err = NetworkError,
                        ![i].res = PostFailed(NetworkError)]
  /\ UNCHANGED << store, now, nextId, get >>

\* The response has been sent; the slot takes the next request.
PostRelease(i) ==
  /\ req[i].pc = "done"
  /\ req' = [req EXCEPT ![i] = IdleReq]
  /\ UNCHANGED << store, now, nextId, get >>

\* ------------------------------------------------------------- GET /markers
GetStart ==
  /\ get.pc = "idle"
  /\ get' = [get EXCEPT !.pc = "finding"]
  /\ UNCHANGED << store, now, nextId, req >>

GetFind ==
  /\ get.pc = "finding"
  /\ \E ms \in FindSorted(store) : get' = [pc |-> "done", err |-> NoErr, res |-> Listed(ms)]
  /\ UNCHANGED << store, now, nextId, req >>

GetStoreFails ==
  /\ get.pc = "finding"
  /\ get' = [pc |-> "done", err |-> NetworkError, res |-> GetFailed]
  /\ UNCHANGED << store, now, nextId, req >>

GetRelease ==
  /\ get.pc = "done"
  /\ get' = IdleGet
  /\ UNCHANGED << store, now, nextId, req >>

\* ------------------------------------------------------------------ clock
Tick ==
  /\ now < MaxTime
  /\ now' = now + 1
  /\ UNCHANGED << store, nextId, req, get >>

\* ------------------------------------------------------------------ inputs
OptNumbers(vs) == {None} \cup {Some(v) : v \in vs}

Lats == OptNumbers({LatMin - 1, LatMin, LatMax, LatMax + 1})
Lngs == OptNumbers({LngMin - 1, LngMin, LngMax, LngMax + 1})
CoreLengths == {0, ContentMinLength, ContentMaxLength, ContentMaxLength + 1}
Pads == {0, 1}
Contents ==
  {None} \cup { Some(MkString(l, c, r)) : l \in Pads, c \in CoreLengths, r \in Pads }

\* Every request body over the values above.
Bodies == [lat : Lats, lng : Lngs, content : Contents]

\* The bodies of concurrently dispatched requests: two positions, two
\* contents, and bodies that fail validation.
ConcurrentBodies ==
  [lat : {Some(LatMax)},
   lng : {Some(LngMin), Some(LngMax)},
   content : {Some(MkString(1, ContentMinLength, 1)),
              Some(MkString(0, ContentMaxLength, 0))}]
    \cup {[lat |-> Some(LatMax), lng |-> Some(LngMax + 1), content |-> None]}

\* ---------------------------------------------------------- specifications
\* Requests dispatched concurrently, each slot used once.
Next ==
  \/ \E i \in Reqs, body \in ConcurrentBodies : PostStart(i, body)
  \/ \E i \in Reqs : PostInsert(i)
  \/ \E i \in Reqs : PostDuplicate(i)
  \/ \E i \in Reqs : PostStoreFails(i)
  \/ GetStart
  \/ GetFind
  \/ GetStoreFails
  \/ GetRelease
  \/ Tick

Spec == Init /\ [][Next]_vars

\* The create path alone over every body: one request at a time, the slot
\* reused.  (GET /markers and the clock change nothing a create reads but
\* createdAt.)
NextSeq ==
  \/ \E body \in Bodies : PostStart(1, body)
  \/ PostInsert(1)
  \/ PostDuplicate(1)
  \/ PostStoreFails(1)
  \/ PostRelease(1)

SpecSeq == Init /\ [][NextSeq]_vars

\* ================================================================ claims
\* Helpers of the statements below.
Started(i) == req[i].pc # "idle"
Done(i) == req[i].pc = "done"
Completes(i) == req[i].pc # "done" /\ req'[i].pc = "done"
Succeeded(i) == Done(i) /\ req[i].res.status = 201
StoreFailed(i) == Done(i) /\ req[i].err.name = "MongoNetworkError"
RejectedAsDuplicate(i) ==
  /\ Done(i)
  /\ req[i].res.status = 400
  /\ req[i].err.name = "MongoServerError"
  /\ req[i].res.message = {"E11000 duplicate key"}

LatInRange(o) == IsSome(o) /\ LatMin <= Val(o) /\ Val(o) <= LatMax
LngInRange(o) == IsSome(o) /\ LngMin <= Val(o) /\ Val(o) <= LngMax
\* The content is l whitespace characters, c others, r whitespace characters.
ContentIs(o, l, c, r) == IsSome(o) /\ Val(o) = MkString(l, c, r)
\* The strings with c characters between their surrounding whitespace.
StringsOfCore == [c \in CoreLengths |-> { MkString(l, c, r) : l \in Pads, r \in Pads }]
ContentCore(o) == { c \in CoreLengths : IsSome(o) /\ Val(o) \in StringsOfCore[c] }
ContentInRange(o) ==
  /\ IsSome(o)
  /\ \E c \in CoreLengths :
       ContentMinLength <= c /\ c <= ContentMaxLength /\ Val(o) \in StringsOfCore[c]
ValidBody(b) == LatInRange(b.lat) /\ LngInRange(b.lng) /\ ContentInRange(b.content)
SamePosition(b1, b2) == b1.lat = b2.lat /\ b1.lng = b2.lng
MarkersAt(b) ==
  { m \in store : m.position.lat = Val(b.lat) /\ m.position.lng = Val(b.lng) }

\* ---- C1 ----------------------------------------------------------------
\* The creates with a valid payload at the position of create i.
C1_Group(i) ==
  { j \in Reqs : Started(j) /\ SamePosition(req[j].body, req[i].body) /\ ValidBody(req[j].body) }

\* C1: when every POST /markers with a valid payload at one position has
\* been answered, there were at least two of them and none met a storage
\* failure, then exactly one was answered 201, every other one was answered
\* with the duplicate-key error, and exactly one marker is stored at that
\* position - whatever the interleaving of the requests.
C1_OneWinner ==
  \A i \in Reqs :
    (/\ Done(i) /\ ~StoreFailed(i)
     /\ ValidBody(req[i].body)
     /\ Cardinality(C1_Group(i)) >= 2
     /\ \A j \in C1_Group(i) : Done(j) /\ ~StoreFailed(j))
    => /\ Cardinality({ j \in C1_Group(i) : Succeeded(j) }) = 1
       /\ \A j \in C1_Group(i) : Succeeded(j) \/ RejectedAsDuplicate(j)
       /\ Cardinality(MarkersAt(req[i].body)) = 1

\* Two creates at one position overlapped: the one whose document was
\* constructed first (the smaller id) lost to the one constructed second.
C1_Witness ==
  \E i, j \in Reqs :
    /\ i # j
    /\ SamePosition(req[i].body, req[j].body)
    /\ Succeeded(i)
    /\ RejectedAsDuplicate(j)
    /\ req[j].doc.id < req[i].doc.id

\* ---- C2 ----------------------------------------------------------------
UniquePositions ==
  \A m1, m2 \in store :
    (m1.position.lat = m2.position.lat /\ m1.position.lng = m2.position.lng) => m1 = m2

\* A create that reaches the collection while its position is stored is
\* not answered 201, leaves the collection as it is, and its error is the
\* duplicate-key error unless the storage call itself failed.
DuplicateRejected ==
  \A i \in Reqs :
    (/\ req[i].pc = "inserting"
     /\ Completes(i)
     /\ MarkersAt(req[i].body) # {})
    => /\ req'[i].res.status = 400
       /\ store' = store
       /\ (req'[i].err.name # "MongoNetworkError" =>
             /\ req'[i].err.name = "MongoServerError"
             /\ req'[i].res.message = {"E11000 duplicate key"})

\* C2: in every reachable state no two stored markers have the same
\* (lat, lng), and a create at a stored position fails with the
\* duplicate-key error and stores nothing.
C2_UniquePosition == [](UniquePositions) /\ [][DuplicateRejected]_vars

C2_Witness ==
  \E i \in Reqs :
    /\ RejectedAsDuplicate(i)
    /\ Cardinality(MarkersAt(req[i].body)) = 1
    /\ \A m \in store : m.id # req[i].doc.id

\* ---- C5 ----------------------------------------------------------------
\* C5: a storage failure during GET /markers or POST /markers is answered
\* 500 with the generic message, nothing of the internal error in it.
C5_StoreFailureIs500 ==
  /\ (get.pc = "done" /\ get.err.name = "MongoNetworkError") =>
       /\ get.res.status = 500
       /\ get.res.message \cap NetworkError.message = {}
  /\ \A i \in Reqs :
       StoreFailed(i) =>
         /\ req[i].res.status = 500
         /\ req[i].res.message \cap NetworkError.message = {}

\* ---- C6 ----------------------------------------------------------------
\* C6: a step that answers a POST with 201 adds exactly the answered record,
\* which was not stored before; a step that answers a POST with a failure
\* leaves the collection as it was; no other step changes the collection;
\* and no step removes or changes a stored record.
C6_Step ==
  /\ store \subseteq store'
  /\ \A i \in Reqs :
       Completes(i) =>
         IF req'[i].res.status = 201
         THEN /\ IsSome(req'[i].res.data)
              /\ Val(req'[i].res.data) \notin store
              /\ store' = store \cup {Val(req'[i].res.data)}
         ELSE store' = store
  /\ (\A i \in Reqs : ~Completes(i)) => store' = store

GetAnswers == get.pc = "finding" /\ get'.pc = "done" /\ get'.res.status = 200

\* C7: a successful GET /markers answers with every stored marker exactly
\* once, a marker with a later createdAt before one with an earlier.
C7_Step ==
  GetAnswers =>
    LET ms == get'.res.data IN
      /\ Len(ms) = Cardinality(store)
      /\ { ms[k] : k \in DOMAIN ms } = store
      /\ \A k, l \in DOMAIN ms : ms[k].createdAt > ms[l].createdAt => k < l

C8_RecordOf(i, m) ==
  /\ m.position.lat = Val(req[i].body.lat)
  /\ m.position.lng = Val(req[i].body.lng)
  /\ \E c \in ContentCore(req[i].body.content) : m.content = MkString(0, c, 0)
  /\ m.id = req[i].doc.id
  /\ m.id >= 1
  /\ m.createdAt >= req[i].t0

\* C8: the 201 answer of a create carries that record, and a listing taken
\* after it holds that same record, exactly once.
C8_Step ==
  /\ \A i \in Reqs :
       Succeeded(i) =>
         /\ C8_RecordOf(i, Val(req[i].res.data))
         /\ \A j \in Reqs : (j # i /\ Started(j)) => req[j].doc.id # req[i].doc.id
  /\ GetAnswers =>
       \A i \in Reqs :
         Succeeded(i) =>
           LET ms == get'.res.data IN
             /\ Cardinality({ k \in DOMAIN ms : ms[k].id = req[i].doc.id }) = 1
             /\ \A k \in DOMAIN ms :
                  ms[k].id = req[i].doc.id => ms[k] = Val(req[i].res.data)

\* C8: create then list gives back the created record, once.
C8_RoundTrip == [][C8_Step]_vars

\* A listing holds the record of a create whose content came with
\* surrounding whitespace.
C8_Witness ==
  /\ get.pc = "done"
  /\ get.res.status = 200
  /\ \E i \in Reqs :
       /\ Succeeded(i)
       /\ ContentIs(req[i].body.content, 1, ContentMinLength, 1)
       /\ \E k \in DOMAIN get.res.data :
            /\ get.res.data[k] = Val(req[i].res.data)
            /\ get.res.data[k].content = MkString(0, ContentMinLength, 0)

\* ---- C3 ----------------------------------------------------------------
LatBelow(b) == IsSome(b.lat) /\ Val(b.lat) < LatMin
LatAbove(b) == IsSome(b.lat) /\ Val(b.lat) > LatMax
LngBelow(b) == IsSome(b.lng) /\ Val(b.lng) < LngMin
LngAbove(b) == IsSome(b.lng) /\ Val(b.lng) > LngMax
NothingStoredFor(i) == \A m \in store : m.id # req[i].doc.id
Refused(i) ==
  /\ Done(i)
  /\ req[i].res.status = 400
  /\ req[i].err.name = "ValidationError"
  /\ NothingStoredFor(i)

\* C3: a create whose lat is outside [-90, 90] or whose lng is outside
\* [-180, 180] never reaches the collection: it is answered 400 with the
\* range message of every such field, and no marker is stored for it,
\* whatever its content and whatever is stored.
C3_RangeRefused ==
  \A i \in Reqs :
    Started(i) =>
      LET b == req[i].body IN
        /\ (LatBelow(b) \/ LatAbove(b) \/ LngBelow(b) \/ LngAbove(b)) => Refused(i)
        /\ LatBelow(b) => MsgLatMin \in req[i].res.message
        /\ LatAbove(b) => MsgLatMax \in req[i].res.message
        /\ LngBelow(b) => MsgLngMin \in req[i].res.message
        /\ LngAbove(b) => MsgLngMax \in req[i].res.message

\* Both fields out of range, a content that is fine, markers stored.
C3_Witness ==
  /\ store # {}
  /\ Refused(1)
  /\ LatBelow(req[1].body)
  /\ LngAbove(req[1].body)
  /\ ContentInRange(req[1].body.content)

\* ---- C4 ----------------------------------------------------------------
\* C4: a create whose content is absent, or has 0 or more than 200
\* characters once its surrounding whitespace is removed, is answered 400
\* with a content message and no marker is stored for it; a content of 1 or
\* of 200 characters after trimming draws no content message, and with a
\* position in range the create goes on to the collection.
C4_ContentLength ==
  \A i \in Reqs :
    Started(i) =>
      LET b == req[i].body
          contentMsgs == req[i].res.message
                           \cap {MsgContentRequired, MsgContentMinLength, MsgContentMaxLength}
      IN  /\ ~ContentInRange(b.content) => (Refused(i) /\ contentMsgs # {})
          /\ ContentInRange(b.content) => contentMsgs = {}
          /\ ValidBody(b) => req[i].err.name # "ValidationError"
          /\ ValidBody(b) => (req[i].pc = "inserting" \/ Done(i))

\* A whitespace-only content is refused while a marker of 200 characters,
\* sent with surrounding whitespace, is stored.
C4_Witness ==
  /\ Refused(1)
  /\ LatInRange(req[1].body.lat)
  /\ LngInRange(req[1].body.lng)
  /\ ContentIs(req[1].body.content, 1, 0, 1)
  /\ \E m \in store : StrLen(m.content) = ContentMaxLength

\* ---- C9 ----------------------------------------------------------------
\* C9: every stored marker has -90 <= lat <= 90, -180 <= lng <= 180, and a
\* content of 1 to 200 characters that neither starts nor ends with
\* whitespace.
C9_StoredValid ==
  \A m \in store :
    /\ LatMin <= m.position.lat /\ m.position.lat <= LatMax
    /\ LngMin <= m.position.lng /\ m.position.lng <= LngMax
    /\ ContentMinLength <= StrLen(m.content)
    /\ StrLen(m.content) <= ContentMaxLength
    /\ m.content[1].ch # "sp"
    /\ m.content[Len(m.content)].ch # "sp"

\* Markers at the corners of the ranges, the shortest and the longest
\* content among them.
C9_Witness ==
  /\ \E m \in store : m.position.lat = LatMin /\ m.position.lng = LngMax
  /\ \E m \in store : m.position.lat = LatMax /\ m.position.lng = LngMin
  /\ \E m \in store : StrLen(m.content) = ContentMinLength
  /\ \E m \in store : StrLen(m.content) = ContentMaxLength

\* ---- C10 ---------------------------------------------------------------
\* The checks in the order lat required, lat range, lng required, lng range,
\* content required, content length: the messages of the first one that
\* fails (a range has a message for each end, a length for each end).
C10_FirstFailing(b) ==
  IF ~IsSome(b.lat) THEN {MsgLatRequired}
  ELSE IF ~LatInRange(b.lat) THEN {MsgLatMin, MsgLatMax}
  ELSE IF ~IsSome(b.lng) THEN {MsgLngRequired}
  ELSE IF ~LngInRange(b.lng) THEN {MsgLngMin, MsgLngMax}
  ELSE IF ~IsSome(b.content) THEN {MsgContentRequired}
  ELSE IF ~ContentInRange(b.content) THEN {MsgContentMinLength, MsgContentMaxLength}
  ELSE {}

\* C10 as claimed: a payload that fails validation is answered with one
\* message, that of the first failing check in the order above.
C10_FirstFailingOnly ==
  \A i \in Reqs :
    (Done(i) /\ req[i].err.name = "ValidationError") =>
      /\ Cardinality(req[i].res.message) = 1
      /\ req[i].res.message \subseteq C10_FirstFailing(req[i].body)

\* The message of a field: required before range or length, and a content
\* that is empty once trimmed counts as missing.
C10_LatMessage(b) ==
  IF ~IsSome(b.lat) THEN {MsgLatRequired}
  ELSE IF LatBelow(b) THEN {MsgLatMin}
  ELSE IF LatAbove(b) THEN {MsgLatMax}
  ELSE {}

C10_LngMessage(b) ==
  IF ~IsSome(b.lng) THEN {MsgLngRequired}
  ELSE IF LngBelow(b) THEN {MsgLngMin}
  ELSE IF LngAbove(b) THEN {MsgLngMax}
  ELSE {}

C10_ContentMessage(b) ==
  IF ~IsSome(b.content) \/ ContentCore(b.content) = {0} THEN {MsgContentRequired}
  ELSE IF \E c \in ContentCore(b.content) : c > ContentMaxLength THEN {MsgContentMaxLength}
  ELSE {}

\* C10 as amended: every field is checked, required before range or length
\* within a field, and the answer holds the message of each failing field.
C10_OneMessagePerField ==
  \A i \in Reqs :
    Started(i) =>
      LET b == req[i].body
          expected == C10_LatMessage(b) \cup C10_LngMessage(b) \cup C10_ContentMessage(b)
      IN  IF expected # {}
          THEN /\ Done(i)
               /\ req[i].res.status = 400
               /\ req[i].err.name = "ValidationError"
               /\ req[i].res.message = expected
          ELSE req[i].err.name # "ValidationError"

\* lat missing, lng out of range and a whitespace-only content: three
\* messages in one answer.
C10_Witness ==
  /\ Done(1)
  /\ ~IsSome(req[1].body.lat)
  /\ LngAbove(req[1].body)
  /\ ContentIs(req[1].body.content, 1, 0, 0)
  /\ req[1].res.message = {MsgLatRequired, MsgLngMax, MsgContentRequired}

====
